---- MODULE Spec2Model ----
(***************************************************************************)
(* Model of the edit-distance engine of typosee.c: levenshtein_distance,   *)
(* levenshtein_matrix_create, levenshtein_matrix_calculate, min3, and the  *)
(* part of main that calls levenshtein_distance for a (keyword, token)     *)
(* pair and applies the threshold test to the returned distance.           *)
(*                                                                         *)
(* Characters are small positive integers (0 is the NUL that the border    *)
(* cells carry in arg1/arg2).  A table cell is addressed by the pair       *)
(* <<i, j>>; a prev pointer is such a pair, or NULL.  Memory that the code *)
(* allocates and never assigns has no value in the model: a border cell    *)
(* has no type and no pos field, an interior cell is UNFILLED until the    *)
(* fill loop reaches it, and a script slot exists in script.at only once   *)
(* memcpy has written it.                                                  *)
(***************************************************************************)
EXTENDS Integers, Sequences, FiniteSets, TLC

\* ---------------------------------------------------------------- bounds
MaxLen == 3
NumChars == 2
MaxThreshold == 2

\* ------------------------------------------------------ program constants
MinThreshold == 1

\* unsigned int arithmetic is arithmetic modulo 2^32.  A value is held as the
\* representative of its residue that a 32-bit integer can hold, so
\* UINT_MAX, the result of 0 - 1, is held as -1 (the same bit pattern).
UINT_MAX == -1

NULL == <<>>

Chars == 1..NumChars

Strings == UNION {[1..n -> Chars] : n \in 0..MaxLen}

VARIABLES
    queue,      \* main: the (keyword, token) pairs still to compare
    out,        \* main: one record per completed comparison
    threshold,  \* main: threshold
    script,     \* main: edit *script, passed by address to every call
    pc,         \* position of the control flow
    str1, str2, \* levenshtein_distance: arguments
    mat,        \* levenshtein_distance: edit **mat
    ci, cj,     \* levenshtein_matrix_calculate: i, j
    distance,   \* levenshtein_distance: distance
    i,          \* levenshtein_distance: i, the script index of the walk
    head,       \* levenshtein_distance: head
    ret,        \* value returned by levenshtein_distance
    failed,     \* history: an allocation of this call returned NULL
    writes      \* history: the indices memcpy wrote to, in order

vars == <<queue, out, threshold, script, pc, str1, str2, mat, ci, cj,
          distance, i, head, ret, failed, writes>>

len1 == Len(str1)
len2 == Len(str2)

\* ------------------------------------------------------------- min3
\* min3 without its second test
min3NoSecondTest(a, b, c) ==
    IF a < b /\ a < c THEN a
    ELSE c

min3(a, b, c) ==
    IF a < b /\ a < c THEN a
    ELSE IF b < a /\ b < c THEN b
    ELSE c

\* -------------------------------------- levenshtein_matrix_calculate
\* a substitution cost that ignores the comparison of the characters
SubstitutionCostAlwaysOne(c1, c2) == 1

SubstitutionCost(c1, c2) == IF c1 = c2 THEN 0 ELSE 1

EditType(best, del, ins, substitution_cost) ==
    IF best = del THEN "DELETION"
    ELSE IF best = ins THEN "INSERTION"
    ELSE IF substitution_cost > 0 THEN "SUBSTITUTION"
    ELSE "NONE"

EditPrev(best, del, ins, x, y) ==
    IF best = del THEN <<x - 1, y>>
    ELSE IF best = ins THEN <<x, y - 1>>
    ELSE <<x - 1, y - 1>>

EditPos(x, y) == x - 1

\* One iteration of the inner loop body: the cell written at [x][y].
CalculateCell(m, s1, s2, x, y) ==
    LET substitution_cost == SubstitutionCost(s1[x], s2[y])
        del   == m[<<x - 1, y>>].score + 1
        ins   == m[<<x, y - 1>>].score + 1
        subst == m[<<x - 1, y - 1>>].score + substitution_cost
        best  == min3(del, ins, subst)
    IN  [score |-> best,
         arg1  |-> s1[x],
         arg2  |-> s2[y],
         pos   |-> EditPos(x, y),
         type  |-> EditType(best, del, ins, substitution_cost),
         prev  |-> EditPrev(best, del, ins, x, y)]

\* ----------------------------------------- levenshtein_matrix_create
UNFILLED == [filled |-> FALSE]

BorderCell(n) == [score |-> n, prev |-> NULL, arg1 |-> 0, arg2 |-> 0]

MatrixCreate(l1, l2) ==
    [c \in (0..l1) \X (0..l2) |->
        IF c[2] = 0 THEN BorderCell(c[1])
        ELSE IF c[1] = 0 THEN BorderCell(c[2])
        ELSE UNFILLED]

FREED == <<>>

\* ------------------------------------------------ levenshtein_distance
NoScript == [ptr |-> "uninit", len |-> 0, at |-> <<>>]

NullScript == [ptr |-> "null", len |-> 0, at |-> <<>>]

ScriptMalloc(n) == [ptr |-> "heap", len |-> n, at |-> <<>>]

\* i = distance; (off by one)
WalkStartAtDistance(d) == d

\* i = distance - 1;
WalkStart(d) == IF d = 0 THEN UINT_MAX ELSE d - 1

\* i--;
WalkNext(k) == IF k = 0 THEN UINT_MAX ELSE k - 1

\* a copy that fills the script in discovery order, from slot 0 upward
MemcpyForward(scr, k, cell) ==
    IF k \in 0..(scr.len - 1)
    THEN [scr EXCEPT !.at = ((scr.len - 1 - k) :> cell) @@ scr.at]
    ELSE scr

\* memcpy(*script + k, head, sizeof(edit)); a k outside the allocation
\* lands in memory that is not part of the script.
Memcpy(scr, k, cell) ==
    IF k \in 0..(scr.len - 1)
    THEN [scr EXCEPT !.at = (k :> cell) @@ scr.at]
    ELSE scr

\* The locals of a call that is not running.
NoCall ==
    /\ str1 = <<>> /\ str2 = <<>> /\ mat = FREED
    /\ ci = 0 /\ cj = 0 /\ distance = 0 /\ i = 0 /\ head = NULL
    /\ ret = 0 /\ failed = FALSE /\ writes = <<>>

\* main, lines 347 and 376: distance = levenshtein_distance(keyWord, token, &script)
Call ==
    /\ pc = "main"
    /\ queue # <<>>
    /\ str1' = Head(queue)[1]
    /\ str2' = Head(queue)[2]
    /\ pc' = "entry"
    /\ UNCHANGED <<queue, out, threshold, script, mat, ci, cj, distance, i,
                   head, ret, failed, writes>>

\* if (len1 == 0) return len2;
ReturnLen2 ==
    /\ pc = "entry"
    /\ len1 = 0
    /\ ret' = len2
    /\ pc' = "ret"
    /\ UNCHANGED <<queue, out, threshold, script, str1, str2, mat, ci, cj,
                   distance, i, head, failed, writes>>

\* if (len2 == 0) return len1;
ReturnLen1 ==
    /\ pc = "entry"
    /\ len1 # 0
    /\ len2 = 0
    /\ ret' = len1
    /\ pc' = "ret"
    /\ UNCHANGED <<queue, out, threshold, script, str1, str2, mat, ci, cj,
                   distance, i, head, failed, writes>>

\* mat = levenshtein_matrix_create(...), every malloc succeeding
Create ==
    /\ pc = "entry"
    /\ len1 # 0
    /\ len2 # 0
    /\ mat' = MatrixCreate(len1, len2)
    /\ cj' = 1
    /\ ci' = 1
    /\ pc' = "calc"
    /\ UNCHANGED <<queue, out, threshold, script, str1, str2, distance, i,
                   head, ret, failed, writes>>

\* levenshtein_matrix_create returns NULL: *script = NULL; return 0;
CreateFail ==
    /\ pc = "entry"
    /\ len1 # 0
    /\ len2 # 0
    /\ script' = NullScript
    /\ ret' = 0
    /\ failed' = TRUE
    /\ pc' = "ret"
    /\ UNCHANGED <<queue, out, threshold, str1, str2, mat, ci, cj, distance,
                   i, head, writes>>

\* one iteration of the inner loop of levenshtein_matrix_calculate
CalcCell ==
    /\ pc = "calc"
    /\ cj <= len2
    /\ ci <= len1
    /\ mat' = [mat EXCEPT ![<<ci, cj>>] = CalculateCell(mat, str1, str2, ci, cj)]
    /\ IF ci + 1 <= len1
       THEN ci' = ci + 1 /\ cj' = cj
       ELSE ci' = 1 /\ cj' = cj + 1
    /\ UNCHANGED <<queue, out, threshold, script, pc, str1, str2, distance,
                   i, head, ret, failed, writes>>

\* return mat[len1][len2].score;
CalcReturn ==
    /\ pc = "calc"
    /\ cj > len2
    /\ distance' = mat[<<len1, len2>>].score
    /\ pc' = "alloc"
    /\ UNCHANGED <<queue, out, threshold, script, str1, str2, mat, ci, cj,
                   i, head, ret, failed, writes>>

\* *script = malloc(distance * sizeof(edit)) succeeds; the walk starts
ScriptAlloc ==
    /\ pc = "alloc"
    /\ script' = ScriptMalloc(distance)
    /\ i' = WalkStart(distance)
    /\ head' = <<len1, len2>>
    /\ pc' = "walk"
    /\ UNCHANGED <<queue, out, threshold, str1, str2, mat, ci, cj, distance,
                   ret, failed, writes>>

\* *script = malloc(...) returns NULL: distance = 0;  For distance = 0 the
\* request is malloc(0), which may return NULL without being out of memory.
ScriptAllocFail ==
    /\ pc = "alloc"
    /\ script' = NullScript
    /\ distance' = 0
    /\ failed' = (distance # 0)
    /\ pc' = "cleanup"
    /\ UNCHANGED <<queue, out, threshold, str1, str2, mat, ci, cj, i, head,
                   ret, writes>>

\* loop body with head->type != NONE
WalkCopy ==
    /\ pc = "walk"
    /\ mat[head].prev # NULL
    /\ mat[head].type # "NONE"
    /\ script' = Memcpy(script, i, mat[head])
    /\ writes' = Append(writes, i)
    /\ i' = WalkNext(i)
    /\ head' = mat[head].prev
    /\ UNCHANGED <<queue, out, threshold, pc, str1, str2, mat, ci, cj,
                   distance, ret, failed>>

\* loop body with head->type == NONE
WalkSkip ==
    /\ pc = "walk"
    /\ mat[head].prev # NULL
    /\ mat[head].type = "NONE"
    /\ head' = mat[head].prev
    /\ UNCHANGED <<queue, out, threshold, script, pc, str1, str2, mat, ci,
                   cj, distance, i, ret, failed, writes>>

\* head->prev == NULL ends the loop
WalkEnd ==
    /\ pc = "walk"
    /\ mat[head].prev = NULL
    /\ pc' = "cleanup"
    /\ UNCHANGED <<queue, out, threshold, script, str1, str2, mat, ci, cj,
                   distance, i, head, ret, failed, writes>>

\* free the rows and the matrix; return distance;
Cleanup ==
    /\ pc = "cleanup"
    /\ mat' = FREED
    /\ ret' = distance
    /\ pc' = "ret"
    /\ UNCHANGED <<queue, out, threshold, script, str1, str2, ci, cj,
                   distance, i, head, failed, writes>>

\* main: if (distance <= threshold) printf(...); the locals of the call die
Report ==
    /\ pc = "ret"
    /\ out' = Append(out, [str1 |-> str1, str2 |-> str2, distance |-> ret,
                           reported |-> (ret <= threshold),
                           failed |-> failed])
    /\ queue' = Tail(queue)
    /\ pc' = "main"
    /\ str1' = <<>> /\ str2' = <<>> /\ mat' = FREED
    /\ ci' = 0 /\ cj' = 0 /\ distance' = 0 /\ i' = 0 /\ head' = NULL
    /\ ret' = 0 /\ failed' = FALSE /\ writes' = <<>>
    /\ UNCHANGED <<threshold, script>>

Next ==
    \/ Call
    \/ ReturnLen2
    \/ ReturnLen1
    \/ Create
    \/ CreateFail
    \/ CalcCell
    \/ CalcReturn
    \/ ScriptAlloc
    \/ ScriptAllocFail
    \/ WalkCopy
    \/ WalkSkip
    \/ WalkEnd
    \/ Cleanup
    \/ Report

InitMain ==
    /\ out = <<>>
    /\ script = NoScript
    /\ pc = "main"
    /\ NoCall

\* one comparison
Init ==
    /\ \E a \in Strings, b \in Strings : queue = <<(<<a, b>>)>>
    /\ threshold \in MinThreshold..MaxThreshold
    /\ InitMain

Spec == Init /\ [][Next]_vars

\* the comparison of a pair followed by the comparison of the swapped pair
InitSym ==
    /\ \E a \in Strings, b \in Strings : queue = << <<a, b>>, <<b, a>> >>
    /\ threshold = MinThreshold
    /\ InitMain

SpecSym == InitSym /\ [][Next]_vars

\* the three comparisons of a triple
InitTri ==
    /\ \E a \in Strings, b \in Strings, c \in Strings :
          queue = << <<a, b>>, <<b, c>>, <<a, c>> >>
    /\ threshold = MinThreshold
    /\ InitMain

SpecTri == InitTri /\ [][Next]_vars

\* ===================================================================
\* Properties
\* ===================================================================
Interior == (1..len1) \X (1..len2)

MinOf(S) == CHOOSE x \in S : \A y \in S : x <= y

Del(c) == mat[<<c[1] - 1, c[2]>>].score + 1
Ins(c) == mat[<<c[1], c[2] - 1>>].score + 1
Subst(c) == mat[<<c[1] - 1, c[2] - 1>>].score
            + (IF str1[c[1]] = str2[c[2]] THEN 0 ELSE 1)

\* the fill loop has finished and the table has not been freed
TableFilled == pc \in {"alloc", "walk", "cleanup"}

\* the backward walk of this call has been started
Walked == head # NULL

\* C1: once levenshtein_matrix_calculate has returned, every interior cell's
\* score is the minimum of del, ins and subst computed from its three
\* neighbours, and the distance is the score of the last cell.
C1_ScoreIsMinimum ==
    pc = "alloc" =>
        /\ distance = mat[<<len1, len2>>].score
        /\ \A c \in Interior :
              mat[c].score = MinOf({Del(c), Ins(c), Subst(c)})

\* C2: when a call that walked the table returns, the script has exactly
\* `distance` slots and every slot 0..distance-1 was written by the walk.
C2_ScriptLengthIsDistance ==
    (pc = "ret" /\ Walked) =>
        /\ script.ptr = "heap"
        /\ script.len = ret
        /\ DOMAIN script.at = 0..(ret - 1)

\* C3: with an empty first string the call returns len2 and a script of len2
\* insertions at position 0, in the order of str2; with an empty second
\* string it returns len1 and a script of len1 deletions of str1's characters.
C3_EmptyInputScript ==
    pc = "ret" =>
        /\ str1 = <<>> =>
              /\ ret = len2
              /\ \A k \in 0..(len2 - 1) :
                    /\ script.ptr = "heap"
                    /\ script.len = len2
                    /\ k \in DOMAIN script.at
                    /\ script.at[k].type = "INSERTION"
                    /\ script.at[k].pos = 0
                    /\ script.at[k].arg2 = str2[k + 1]
        /\ str2 = <<>> =>
              /\ ret = len1
              /\ \A k \in 0..(len1 - 1) :
                    /\ script.ptr = "heap"
                    /\ script.len = len1
                    /\ k \in DOMAIN script.at
                    /\ script.at[k].type = "DELETION"
                    /\ script.at[k].arg1 = str1[k + 1]

\* C4: a comparison in which an allocation failed is never reported by main
\* as a match (a line printed because distance <= threshold).
C4_AllocFailureNotReported ==
    \A k \in DOMAIN out : out[k].failed => ~out[k].reported

\* every comparison recorded so far ran without an allocation failure
NoFailure == \A k \in DOMAIN out : ~out[k].failed

\* C5: for the comparisons (A,B), (B,C), (A,C), none of which ran out of
\* memory, distance(A,C) <= distance(A,B) + distance(B,C).
C5_Triangle ==
    (Len(out) = 3 /\ NoFailure) =>
        out[3].distance <= out[1].distance + out[2].distance

\* C6: for the comparisons (A,B) and (B,A), neither of which ran out of
\* memory, the two returned distances are equal.
C6_Symmetry ==
    (/\ Len(out) = 2
     /\ NoFailure
     /\ out[2].str1 = out[1].str2
     /\ out[2].str2 = out[1].str1) =>
        out[1].distance = out[2].distance

C6_Witness ==
    /\ Len(out) = 2
    /\ NoFailure
    /\ out[2].str1 = out[1].str2
    /\ out[2].str2 = out[1].str1
    /\ Len(out[1].str1) >= 2
    /\ Len(out[1].str2) > Len(out[1].str1)
    /\ out[1].distance >= 2

\* C7: in a call with str1 = str2 the distance and the returned value are 0,
\* every cell the walk visits before the border has type NONE, and no edit
\* is written to the script.
C7_Identity ==
    (pc # "main" /\ str1 = str2) =>
        /\ pc \in {"alloc", "walk", "cleanup"} => distance = 0
        /\ pc = "ret" => ret = 0
        /\ (pc = "walk" /\ mat[head].prev # NULL) => mat[head].type = "NONE"
        /\ writes = <<>>
        /\ script.at = <<>>

C7_Witness ==
    /\ pc = "ret"
    /\ str1 = str2
    /\ len1 >= 2
    /\ Walked
    /\ script.ptr = "heap"

\* C8: once the table is filled, every interior cell records the candidate
\* chosen with precedence deletion > insertion > substitution among those
\* that attain the minimum of del, ins and subst.
C8_TieBreak ==
    pc = "alloc" =>
        \A c \in Interior :
            LET m == MinOf({Del(c), Ins(c), Subst(c)})
            IN  IF Del(c) = m
                THEN /\ mat[c].type = "DELETION"
                     /\ mat[c].prev = <<c[1] - 1, c[2]>>
                ELSE IF Ins(c) = m
                THEN /\ mat[c].type = "INSERTION"
                     /\ mat[c].prev = <<c[1], c[2] - 1>>
                ELSE /\ mat[c].type = (IF str1[c[1]] = str2[c[2]]
                                       THEN "NONE" ELSE "SUBSTITUTION")
                     /\ mat[c].prev = <<c[1] - 1, c[2] - 1>>

\* C9: the pos fields of the entries written to the script are
\* non-decreasing with increasing script index.
C9_ScriptOrder ==
    script.ptr = "heap" =>
        \A k1 \in DOMAIN script.at, k2 \in DOMAIN script.at :
            k1 < k2 => script.at[k1].pos <= script.at[k2].pos

C9_Witness ==
    /\ pc = "ret"
    /\ script.ptr = "heap"
    /\ \E k1 \in DOMAIN script.at, k2 \in DOMAIN script.at :
          k1 < k2 /\ script.at[k1].pos < script.at[k2].pos

\* C10: every interior cell's score is its predecessor's score plus 1 if its
\* type is not NONE and plus 0 otherwise; every memcpy of the walk uses an
\* index in 0..distance-1; and when the walk stops, the number of edits
\* copied is distance minus the score of the border cell it stopped at,
\* which is at most distance.
C10_BacktraceBounds ==
    /\ TableFilled =>
          \A c \in Interior :
              mat[c].score = mat[mat[c].prev].score
                             + (IF mat[c].type # "NONE" THEN 1 ELSE 0)
    /\ (pc = "walk" /\ mat[head].prev # NULL /\ mat[head].type # "NONE") =>
          i \in 0..(distance - 1)
    /\ \A k \in DOMAIN writes : writes[k] \in 0..(distance - 1)
    /\ (pc = "cleanup" /\ Walked) =>
          /\ Len(writes) = distance - mat[head].score
          /\ Len(writes) <= distance

C10_Witness ==
    /\ pc = "cleanup"
    /\ Walked
    /\ Len(writes) >= 1
    /\ mat[head].score >= 1

====
